---- MODULE Spec2Model ----
(***************************************************************************)
(* WEFT compile-time core: RenderGraph::build (instance collection, the    *)
(* four typing phases, meta-graph construction) and the Coordinator that   *)
(* drives the registered backends.                                         *)
(*                                                                         *)
(* A program is a list of instance bindings and a list of backend (sink)   *)
(* statements.  Strands are not modelled: every phase of the typer works   *)
(* on instance-level dependencies (GraphNode.deps).                        *)
(*                                                                         *)
(* Iteration over a std HashMap / HashSet has no defined order; wherever   *)
(* the code's result depends on such an order the action draws the order   *)
(* with \E.  petgraph::algo::toposort is a library call: it is modelled by *)
(* its contract (some topological order of the graph, or Err on a cycle).  *)
(***************************************************************************)
EXTENDS Integers, Sequences, FiniteSets, TLC

\* ---------------------------------------------------------------- bounds
MaxEdges == 2
MaxSinks == 2
MaxBackends == 2
MaxCompiles == 2
MaxTicks == 2

\* ------------------------------------------------------------- utilities
None == "None"

Range(s) == {s[i] : i \in DOMAIN s}

Perms(S) == {s \in [1..Cardinality(S) -> S] : \A i, j \in 1..Cardinality(S) : s[i] = s[j] => i = j}

Pos(s, x) == CHOOSE i \in DOMAIN s : s[i] = x

Reverse(s) == [i \in 1..Len(s) |-> s[Len(s) + 1 - i]]

BoundedSeq(S, n) == UNION {[1..k -> S] : k \in 0..n}

EmptyMap == [x \in {} |-> None]

\* ------------------------------------------- backend_registry / builtins
Context == {"Visual", "Audio", "Compute"}

\* variant: every other keyword is a Compute sink
get_context_lenient(backend_keyword) ==
    CASE backend_keyword \in {"display", "render", "render_3d"} -> "Visual"
      [] backend_keyword = "play" -> "Audio"
      [] OTHER -> "Compute"

get_context(backend_keyword) ==
    CASE backend_keyword \in {"display", "render", "render_3d"} -> "Visual"
      [] backend_keyword = "play" -> "Audio"
      [] backend_keyword \in {"compute", "data", "web", "osc", "midi"} -> "Compute"
      [] OTHER -> None

name(ctx) == ctx

to_lowercase(s) ==
    CASE s = "Visual" -> "visual"
      [] s = "Audio" -> "audio"
      [] s = "Compute" -> "compute"
      [] OTHER -> s

priority(ctx) ==
    CASE ctx = "Visual" -> 0
      [] ctx = "Audio" -> 1
      [] ctx = "Compute" -> 2

get_builtin_context(builtin_name) ==
    CASE builtin_name \in {"load_movie", "load_video", "load_image", "camera", "camera_in"} -> "Visual"
      [] builtin_name \in {"load_audio", "mic_in", "microphone"} -> "Audio"
      [] OTHER -> None

\* ------------------------------------------------------------- programs
Names == {"a", "b", "c"}

ProgramOrder == <<"a", "b", "c">>

\* callee of a binding whose expression is a Call; "" for any other expression
NoCall == ""

\* Env::new registers no user spindles
env_spindles == {}

Keywords == {"display", "play"}

SinkStmts == [context : Keywords, positional_args : {{n} : n \in Names}]

\* the dependencies a program may contain: the forward edges of the program
\* order, one backward edge (a two-cycle with <<a, b>>) and one self reference
DepCandidates == {<<"a", "b">>, <<"a", "c">>, <<"b", "c">>, <<"b", "a">>, <<"a", "a">>}

DepGraphs == {E \in SUBSET DepCandidates : Cardinality(E) <= MaxEdges}

\* the bindings a, b, c in program order; <<d, n>> \in E means n's expression reads d
Bindings(E, callA) ==
    [i \in 1..Len(ProgramOrder) |->
        [name |-> ProgramOrder[i],
         deps |-> {d \in Names : <<d, ProgramOrder[i]>> \in E},
         call |-> IF i = 1 THEN callA ELSE NoCall]]

Programs ==
    {[bindings |-> Bindings(E, callA), backends |-> S] :
        E \in DepGraphs, callA \in {NoCall, "load_audio"}, S \in BoundedSeq(SinkStmts, MaxSinks)}

\* ----------------------------------------------------------------- state
VARIABLES
    pc,              \* position inside RenderGraph::build
    ast,             \* the Program handed to build
    graph,           \* RenderGraph.graph: [nodes : Seq(GraphNode), edges : Seq(edge)]
    node_indices,    \* RenderGraph.node_indices: name -> index into graph.nodes
    duplicate_into,  \* RenderGraph.duplicate_into: name -> set of contexts
    original_edges,  \* RenderGraph.original_edges: Seq(<<child, parent>>)
    extracted,       \* (subgraphs, references) local to build_meta_graph
    result,          \* what build returned: [ok, meta, error]
    backends,        \* Coordinator.backends: Seq of Backend::context() strings
    running,         \* Coordinator.running
    assignments,     \* Coordinator.assignments: node name -> backend index
    exec_order,      \* Coordinator.exec_order
    env,             \* Env: [started (start_time # 0.0), syncs (sync_counters calls)]
    compiled,        \* the batches handed to Backend::compile_nodes by the last compile
    calls,           \* the backends whose execute ran in the last tick, in call order
    ret,             \* what the last Coordinator call returned: [op, ok, error]
    compiles,        \* number of compile calls so far
    failed,          \* index of the backend whose execute returned Err in the last tick, 0 if none
    handles,         \* Backend::supports_handles of each registered backend
    outputs,         \* Coordinator.outputs: OutputRegistry.outputs, key -> OutputLocation
    lookup,          \* the last call, when it was a lookup: its arguments, what get_handle did, what it returned
    getter,          \* the invocation of the ValueGetter closure that lookup returned
    exposed,         \* history: the (instance, output) pairs passed to expose so far
    first_build      \* what an earlier build of the same program on a fresh RenderGraph returned

buildVars == <<pc, ast, graph, node_indices, duplicate_into, original_edges, extracted, result>>

coordVars == <<backends, running, assignments, exec_order, env, compiled, calls, ret, compiles>>

registryVars == <<failed, handles, outputs, lookup, getter, exposed>>

vars == <<buildVars, coordVars, registryVars, first_build>>

NoResult == [ok |-> FALSE, meta |-> None, error |-> None]

NoExtract == [subgraphs |-> EmptyMap, references |-> <<>>]

NoReturn == [op |-> None, ok |-> TRUE, error |-> None]

NotCalled == "not called"

NoLookup == [instance |-> None, output |-> None, backend |-> 0, get_handle |-> NotCalled, value |-> None]

NoAnswer == [ok |-> FALSE, value |-> 0]

NoGetter == [invoked |-> FALSE, instance |-> None, output |-> None, backend |-> 0,
             coords |-> None, answer |-> NoAnswer, value |-> 0]

NoBuild == [built |-> FALSE, result |-> NoResult, edges |-> {}]

\* Coordinator::new with Env::new
CoordinatorNew ==
    /\ backends = <<>>
    /\ running = FALSE
    /\ assignments = EmptyMap
    /\ exec_order = <<>>
    /\ env = [started |-> FALSE, syncs |-> 0]
    /\ compiled = <<>>
    /\ calls = <<>>
    /\ ret = NoReturn
    /\ compiles = 0
    /\ failed = 0
    /\ handles = <<>>
    /\ outputs = EmptyMap
    /\ lookup = NoLookup
    /\ getter = NoGetter
    /\ exposed = {}
    /\ first_build = NoBuild

\* RenderGraph::new, and a program about to be built
Init ==
    /\ pc = "collect"
    /\ ast \in Programs
    /\ graph = [nodes |-> <<>>, edges |-> <<>>]
    /\ node_indices = EmptyMap
    /\ duplicate_into = EmptyMap
    /\ original_edges = <<>>
    /\ extracted = NoExtract
    /\ result = NoResult
    /\ CoordinatorNew

\* ---------------------------------------------------- collect_instances
check_node_type(call) ==
    IF call = NoCall THEN "Expression"
    ELSE IF call \in env_spindles THEN "Spindle" ELSE "Builtin"

NewGraphNode(bind) ==
    [instance_name |-> bind.name,
     original_name |-> None,
     node_type |-> check_node_type(bind.call),
     context |-> None,
     call |-> bind.call,
     deps |-> bind.deps,
     is_duplicate |-> FALSE]

RECURSIVE collect(_, _, _)
collect(binds, nodes, indices) ==
    IF binds = <<>> THEN [nodes |-> nodes, indices |-> indices]
    ELSE LET bind == Head(binds)
         IN collect(Tail(binds),
                    Append(nodes, NewGraphNode(bind)),
                    (bind.name :> (Len(nodes) + 1)) @@ indices)

CollectInstances ==
    /\ pc = "collect"
    /\ LET c == collect(ast.bindings, graph.nodes, node_indices)
       IN /\ graph' = [graph EXCEPT !.nodes = c.nodes]
          /\ node_indices' = c.indices
    /\ pc' = "edges"
    /\ UNCHANGED <<ast, duplicate_into, original_edges, extracted, result>>
    /\ UNCHANGED <<coordVars, registryVars, first_build>>

\* --------------------------------------------------- build_initial_edges
\* the (dep, name) pairs pushed by the two nested loops
InitialEdgeSet ==
    {e \in (DOMAIN node_indices) \X (DOMAIN node_indices) :
        e[1] \in graph.nodes[node_indices[e[2]]].deps}

\* the outer loop walks node_indices (a HashMap) and the inner loop walks deps
\* (a HashSet): the pairs of one name are contiguous, every other order is open
EdgeOrders(S) ==
    {s \in Perms(S) :
        \A i, j, k \in DOMAIN s : (i < j /\ j < k /\ s[i][2] = s[k][2]) => s[j][2] = s[i][2]}

BuildInitialEdges ==
    /\ pc = "edges"
    /\ \E edges_to_add \in EdgeOrders(InitialEdgeSet) :
          /\ original_edges' = original_edges \o edges_to_add
          /\ graph' = [graph EXCEPT !.edges = @ \o
                [i \in DOMAIN edges_to_add |->
                    [src |-> node_indices[edges_to_add[i][1]],
                     dst |-> node_indices[edges_to_add[i][2]],
                     weight |-> "Normal"]]]
    /\ pc' = "phase0"
    /\ UNCHANGED <<ast, node_indices, duplicate_into, extracted, result>>
    /\ UNCHANGED <<coordVars, registryVars, first_build>>

\* -------------------------------------------------- phase0_initial_typing
\* the first Call expression among the node's outputs, if its callee is a Var
extract_builtin_name(node) == IF node.call = NoCall THEN None ELSE node.call

\* Phase 0a: inherent builtins
phase0a(nodes) ==
    [i \in DOMAIN nodes |->
        IF /\ nodes[i].node_type = "Builtin"
           /\ extract_builtin_name(nodes[i]) # None
           /\ get_builtin_context(extract_builtin_name(nodes[i])) # None
        THEN [nodes[i] EXCEPT !.context = get_builtin_context(extract_builtin_name(nodes[i]))]
        ELSE nodes[i]]

\* variant: a node that already has a context keeps it
type_expr_as_keep(nodes, indices, args, context) ==
    [i \in DOMAIN nodes |->
        IF /\ \E n \in args : n \in DOMAIN indices /\ indices[n] = i
           /\ nodes[i].context = None
        THEN [nodes[i] EXCEPT !.context = context]
        ELSE nodes[i]]

\* type_node on every instance the expression tree names (type_expr_as)
type_expr_as(nodes, indices, args, context) ==
    [i \in DOMAIN nodes |->
        IF \E n \in args : n \in DOMAIN indices /\ indices[n] = i
        THEN [nodes[i] EXCEPT !.context = context]
        ELSE nodes[i]]

\* Phase 0b: the backend statements in program order; an unknown keyword
\* returns the error at once and keeps what earlier statements typed
RECURSIVE phase0b(_, _, _)
phase0b(stmts, nodes, indices) ==
    IF stmts = <<>> THEN [nodes |-> nodes, error |-> None]
    ELSE LET backend == Head(stmts)
             context == get_context(backend.context)
         IN IF context = None
            THEN [nodes |-> nodes, error |-> "Unknown backend: " \o backend.context]
            ELSE phase0b(Tail(stmts),
                         type_expr_as(nodes, indices, backend.positional_args, context),
                         indices)

Phase0InitialTyping ==
    /\ pc = "phase0"
    /\ LET r == phase0b(ast.backends, phase0a(graph.nodes), node_indices)
       IN /\ graph' = [graph EXCEPT !.nodes = r.nodes]
          /\ IF r.error = None
             THEN pc' = "phase1" /\ result' = result
             ELSE pc' = "failed" /\ result' = [ok |-> FALSE, meta |-> None, error |-> r.error]
    /\ UNCHANGED <<ast, node_indices, duplicate_into, original_edges, extracted>>
    /\ UNCHANGED <<coordVars, registryVars, first_build>>

\* ------------------------------------------------ phase1_type_propagation
\* petgraph adjacency: the edges of a node are walked newest first
Outgoing(edges, i) ==
    LET own == SelectSeq(edges, LAMBDA e : e.src = i)
    IN Reverse([k \in DOMAIN own |-> own[k].dst])

Incoming(edges, i) ==
    LET own == SelectSeq(edges, LAMBDA e : e.dst = i)
    IN Reverse([k \in DOMAIN own |-> own[k].src])

typed_contexts(nodes, idxs) == {nodes[j].context : j \in idxs} \ {None}

\* the bottom-up for loop without its `context.is_some()` skip: a node that
\* already has a context takes the context of its dependents again
RECURSIVE bottom_up_pass_overwrite(_, _, _)
bottom_up_pass_overwrite(nodes, edges, i) ==
    IF i > Len(nodes) THEN nodes
    ELSE LET dependents == Range(Outgoing(edges, i))
             dependent_contexts == typed_contexts(nodes, dependents)
         IN IF /\ dependents # {}
               /\ Cardinality(dependent_contexts) = 1
            THEN bottom_up_pass_overwrite([nodes EXCEPT ![i].context = CHOOSE c \in dependent_contexts : TRUE],
                                          edges, i + 1)
            ELSE bottom_up_pass_overwrite(nodes, edges, i + 1)

\* one pass of the bottom-up for loop, in node index order, updating in place
RECURSIVE bottom_up_pass(_, _, _)
bottom_up_pass(nodes, edges, i) ==
    IF i > Len(nodes) THEN nodes
    ELSE LET dependents == Range(Outgoing(edges, i))
             dependent_contexts == typed_contexts(nodes, dependents)
         IN IF /\ nodes[i].context = None
               /\ dependents # {}
               /\ Cardinality(dependent_contexts) = 1
            THEN bottom_up_pass([nodes EXCEPT ![i].context = CHOOSE c \in dependent_contexts : TRUE],
                                edges, i + 1)
            ELSE bottom_up_pass(nodes, edges, i + 1)

\* while changed { ... }
RECURSIVE bottom_up(_, _)
bottom_up(nodes, edges) ==
    LET after == bottom_up_pass(nodes, edges, 1)
    IN IF after = nodes THEN nodes ELSE bottom_up(after, edges)

RECURSIVE top_down_pass(_, _, _)
top_down_pass(nodes, edges, i) ==
    IF i > Len(nodes) THEN nodes
    ELSE LET dependencies == Range(Incoming(edges, i))
             dependency_contexts == typed_contexts(nodes, dependencies)
         IN IF /\ nodes[i].context = None
               /\ dependencies # {}
               /\ Cardinality(dependency_contexts) = 1
            THEN top_down_pass([nodes EXCEPT ![i].context = CHOOSE c \in dependency_contexts : TRUE],
                               edges, i + 1)
            ELSE top_down_pass(nodes, edges, i + 1)

RECURSIVE top_down(_, _)
top_down(nodes, edges) ==
    LET after == top_down_pass(nodes, edges, 1)
    IN IF after = nodes THEN nodes ELSE top_down(after, edges)

\* Phase 1a to its fixed point, then Phase 1b to its fixed point, once
phase1(nodes, edges) == top_down(bottom_up(nodes, edges), edges)

Phase1TypePropagation ==
    /\ pc = "phase1"
    /\ graph' = [graph EXCEPT !.nodes = phase1(graph.nodes, graph.edges)]
    /\ pc' = "phase2"
    /\ UNCHANGED <<ast, node_indices, duplicate_into, original_edges, extracted, result>>
    /\ UNCHANGED <<coordVars, registryVars, first_build>>

\* ------------------------------ phase2_find_and_process_untyped_components
\* petgraph neighbors_undirected: the outgoing list, then the incoming list
\* without the self loops already seen in the outgoing list
neighbors_undirected(edges, i) ==
    Outgoing(edges, i) \o SelectSeq(Incoming(edges, i), LAMBDA j : j # i)

\* the stack loop of find_untyped_component
RECURSIVE component_walk(_, _, _, _, _)
component_walk(nodes, edges, stack, visited, component) ==
    IF stack = <<>> THEN [component |-> component, visited |-> visited]
    ELSE LET node_idx == stack[Len(stack)]
             rest == SubSeq(stack, 1, Len(stack) - 1)
         IN IF node_idx \in visited \/ nodes[node_idx].context # None
            THEN component_walk(nodes, edges, rest, visited, component)
            ELSE LET seen == visited \cup {node_idx}
                     pushed == SelectSeq(neighbors_undirected(edges, node_idx),
                                         LAMBDA j : j \notin seen /\ nodes[j].context = None)
                 IN component_walk(nodes, edges, rest \o pushed, seen, Append(component, node_idx))

find_untyped_component(nodes, edges, start, visited) ==
    LET w == component_walk(nodes, edges, <<start>>, visited, <<>>)
    IN [component |-> w.component,
        visited |-> w.visited,
        has_typed_dep |-> \E k \in DOMAIN w.component :
                              \E d \in Range(Incoming(edges, w.component[k])) : nodes[d].context # None]

\* variant: the dependents of the component are not looked at
find_component_target_contexts_none(nodes, edges, component) == {}

find_component_target_contexts(nodes, edges, component) ==
    UNION {typed_contexts(nodes, Range(Outgoing(edges, component[k]))) : k \in DOMAIN component}

\* the incoming neighbours of the component's nodes, in the order pick_context meets them
RECURSIVE dependencies_in_order(_, _)
dependencies_in_order(edges, component) ==
    IF component = <<>> THEN <<>>
    ELSE Incoming(edges, Head(component)) \o dependencies_in_order(edges, Tail(component))

\* variant: the context is taken from the targets alone
pick_context_by_target(nodes, edges, component, targets) ==
    IF targets # {}
    THEN CHOOSE c \in targets : \A o \in targets : priority(c) <= priority(o)
    ELSE "Compute"

pick_context(nodes, edges, component, targets) ==
    LET typed == SelectSeq(dependencies_in_order(edges, component), LAMBDA d : nodes[d].context # None)
    IN IF typed # <<>> THEN nodes[Head(typed)].context
       ELSE IF targets # {}
            THEN CHOOSE c \in targets : \A o \in targets : priority(c) <= priority(o)
            ELSE "Compute"

assign_component(nodes, component, context) ==
    [i \in DOMAIN nodes |->
        IF i \in Range(component) THEN [nodes[i] EXCEPT !.context = context] ELSE nodes[i]]

\* the for loop over untyped_nodes
RECURSIVE process_components(_, _, _, _, _)
process_components(untyped_nodes, nodes, edges, visited, dup) ==
    IF untyped_nodes = <<>> THEN [nodes |-> nodes, dup |-> dup]
    ELSE LET start_node == Head(untyped_nodes)
         IN IF start_node \in visited
            THEN process_components(Tail(untyped_nodes), nodes, edges, visited, dup)
            ELSE LET f == find_untyped_component(nodes, edges, start_node, visited)
                     target_contexts == find_component_target_contexts(nodes, edges, f.component)
                     members == {nodes[f.component[k]].instance_name : k \in DOMAIN f.component}
                 IN IF f.has_typed_dep
                    THEN process_components(Tail(untyped_nodes),
                             assign_component(nodes, f.component,
                                 pick_context(nodes, edges, f.component, target_contexts)),
                             edges, f.visited, dup)
                    ELSE IF Cardinality(target_contexts) > 1
                    THEN process_components(Tail(untyped_nodes), nodes, edges, f.visited,
                             [n \in members |-> target_contexts] @@ dup)
                    ELSE IF Cardinality(target_contexts) = 1
                    THEN process_components(Tail(untyped_nodes),
                             assign_component(nodes, f.component, CHOOSE c \in target_contexts : TRUE),
                             edges, f.visited, dup)
                    ELSE process_components(Tail(untyped_nodes), nodes, edges, f.visited, dup)

\* ------------------------------------------------------ create_duplicates
concrete_name(n, context) == n \o "$" \o to_lowercase(name(context))

\* The clones of one node go to different contexts, and nothing after this
\* point compares the positions of two typed nodes of different contexts, so
\* the HashSet order of the contexts is fixed here.
contexts_in_order(S) == SelectSeq(<<"Visual", "Audio", "Compute">>, LAMBDA c : c \in S)

\* variant: a single clone, for the first context only
clones_of_first(old_node, n, contexts) ==
    LET cs == SubSeq(contexts_in_order(contexts), 1, 1)
    IN [k \in DOMAIN cs |->
           [old_node EXCEPT !.instance_name = concrete_name(n, cs[k]),
                            !.original_name = n,
                            !.context = cs[k],
                            !.is_duplicate = TRUE]]

clones_of(old_node, n, contexts) ==
    LET cs == contexts_in_order(contexts)
    IN [k \in DOMAIN cs |->
           [old_node EXCEPT !.instance_name = concrete_name(n, cs[k]),
                            !.original_name = n,
                            !.context = cs[k],
                            !.is_duplicate = TRUE]]

\* order: the iteration order of node_indices
RECURSIVE create_duplicates(_, _, _, _, _, _)
create_duplicates(order, nodes, indices, dup, new_nodes, new_indices) ==
    IF order = <<>> THEN [nodes |-> new_nodes, indices |-> new_indices]
    ELSE LET n == Head(order)
             old_node == nodes[indices[n]]
             added == IF n \in DOMAIN dup THEN clones_of(old_node, n, dup[n]) ELSE <<old_node>>
             names == IF n \in DOMAIN dup
                      THEN [k \in DOMAIN added |-> added[k].instance_name]
                      ELSE <<n>>
         IN create_duplicates(Tail(order), nodes, indices, dup,
                new_nodes \o added,
                [m \in Range(names) |-> Len(new_nodes) + Pos(names, m)] @@ new_indices)

Phase2UntypedComponents ==
    /\ pc = "phase2"
    /\ LET all == [i \in DOMAIN graph.nodes |-> i]
           untyped_nodes == SelectSeq(all, LAMBDA i : graph.nodes[i].context = None)
           p == process_components(untyped_nodes, graph.nodes, graph.edges, {}, duplicate_into)
       IN /\ duplicate_into' = p.dup
          /\ \E order \in Perms(DOMAIN node_indices) :
                LET d == create_duplicates(order, p.nodes, node_indices, p.dup, <<>>, EmptyMap)
                IN /\ graph' = [nodes |-> d.nodes, edges |-> <<>>]
                   /\ node_indices' = d.indices
    /\ pc' = "phase3"
    /\ UNCHANGED <<ast, original_edges, extracted, result>>
    /\ UNCHANGED <<coordVars, registryVars, first_build>>

\* ----------------------------------------------- phase3_build_typed_edges
\* variant: a duplicated instance is represented by its first clone alone
get_concrete_nodes_first(indices, dup, original) ==
    IF original \in DOMAIN dup
    THEN LET cs == SelectSeq(contexts_in_order(dup[original]),
                             LAMBDA c : concrete_name(original, c) \in DOMAIN indices)
         IN [k \in DOMAIN SubSeq(cs, 1, 1) |-> indices[concrete_name(original, cs[k])]]
    ELSE IF original \in DOMAIN indices THEN <<indices[original]>> ELSE <<>>

get_concrete_nodes(indices, dup, original) ==
    IF original \in DOMAIN dup
    THEN LET cs == SelectSeq(contexts_in_order(dup[original]),
                             LAMBDA c : concrete_name(original, c) \in DOMAIN indices)
         IN [k \in DOMAIN cs |-> indices[concrete_name(original, cs[k])]]
    ELSE IF original \in DOMAIN indices THEN <<indices[original]>> ELSE <<>>

\* variant: every edge is labelled Normal
add_edge_unlabelled(nodes, child_idx, parent_idx) ==
    [src |-> child_idx, dst |-> parent_idx, weight |-> "Normal"]

add_edge(nodes, child_idx, parent_idx) ==
    [src |-> child_idx,
     dst |-> parent_idx,
     weight |-> IF nodes[child_idx].context = nodes[parent_idx].context THEN "Normal" ELSE "Reference"]

\* the edges one original (child, parent) pair contributes
typed_edges_of(nodes, indices, dup, child_name, parent_name) ==
    LET child_was_duplicated == child_name \in DOMAIN dup
        parent_was_duplicated == parent_name \in DOMAIN dup
    IN IF child_was_duplicated /\ parent_was_duplicated
       THEN LET cs == SelectSeq(contexts_in_order(dup[child_name]),
                         LAMBDA c : /\ concrete_name(child_name, c) \in DOMAIN indices
                                    /\ concrete_name(parent_name, c) \in DOMAIN indices)
            IN [k \in DOMAIN cs |->
                   [src |-> indices[concrete_name(child_name, cs[k])],
                    dst |-> indices[concrete_name(parent_name, cs[k])],
                    weight |-> "Normal"]]
       ELSE LET child_nodes == get_concrete_nodes(indices, dup, child_name)
                parent_nodes == get_concrete_nodes(indices, dup, parent_name)
                pairs == [k \in 1..(Len(child_nodes) * Len(parent_nodes)) |->
                             <<child_nodes[((k - 1) \div Len(parent_nodes)) + 1],
                               parent_nodes[((k - 1) % Len(parent_nodes)) + 1]>>]
                kept == SelectSeq(pairs, LAMBDA q :
                            ~ (/\ (child_was_duplicated \/ parent_was_duplicated)
                               /\ nodes[q[1]].context # nodes[q[2]].context))
            IN [k \in DOMAIN kept |-> add_edge(nodes, kept[k][1], kept[k][2])]

RECURSIVE phase3(_, _, _, _)
phase3(pairs, nodes, indices, dup) ==
    IF pairs = <<>> THEN <<>>
    ELSE typed_edges_of(nodes, indices, dup, Head(pairs)[1], Head(pairs)[2])
            \o phase3(Tail(pairs), nodes, indices, dup)

Phase3BuildTypedEdges ==
    /\ pc = "phase3"
    /\ graph' = [graph EXCEPT !.edges = phase3(original_edges, graph.nodes, node_indices, duplicate_into)]
    /\ pc' = "meta"
    /\ UNCHANGED <<ast, node_indices, duplicate_into, original_edges, extracted, result>>
    /\ UNCHANGED <<coordVars, registryVars, first_build>>

\* ---------------------------------------------------------------- toposort
\* petgraph::algo::toposort over a graph with nodes 1..n: Ok(some order of the
\* nodes in which every edge goes forward), Err when there is none (a cycle)
TopoOrders(n, edge_set) ==
    {p \in Perms(1..n) : \A e \in edge_set : Pos(p, e[1]) < Pos(p, e[2])}

\* ------------------------------------------------------ extract_subgraphs
edges_of(edges, i) == Reverse(SelectSeq(edges, LAMBDA e : e.src = i))

RECURSIVE edges_of_all(_, _)
edges_of_all(edges, members) ==
    IF members = <<>> THEN <<>>
    ELSE edges_of(edges, Head(members)) \o edges_of_all(edges, Tail(members))

\* variant: clones are left out of the context's node list
nodes_by_context_originals(nodes, context) ==
    SelectSeq([i \in DOMAIN nodes |-> i],
              LAMBDA i : nodes[i].context = context /\ ~nodes[i].is_duplicate)

\* nodes_by_context[context]: the typed nodes of the context in index order
nodes_by_context(nodes, context) ==
    SelectSeq([i \in DOMAIN nodes |-> i], LAMBDA i : nodes[i].context = context)

\* the petgraph of one Subgraph: the context's nodes and its Normal edges
subgraph_edges(nodes, edges, members) ==
    LET normal == SelectSeq(edges_of_all(edges, members),
                            LAMBDA e : e.weight = "Normal" /\ e.dst \in Range(members))
    IN [k \in DOMAIN normal |-> <<Pos(members, normal[k].src), Pos(members, normal[k].dst)>>]

\* variant: the Reference names the producer as from_node and the consumer as to_node
subgraph_references_swapped(nodes, edges, context, members) ==
    LET cross == SelectSeq(edges_of_all(edges, members),
                           LAMBDA e : e.weight = "Reference" /\ nodes[e.dst].context # None)
    IN [k \in DOMAIN cross |->
           [from_context |-> nodes[cross[k].dst].context,
            from_node |-> nodes[cross[k].src].instance_name,
            to_context |-> context,
            to_node |-> nodes[cross[k].dst].instance_name]]

\* the References pushed while the context's nodes are walked
subgraph_references(nodes, edges, context, members) ==
    LET cross == SelectSeq(edges_of_all(edges, members),
                           LAMBDA e : e.weight = "Reference" /\ nodes[e.dst].context # None)
    IN [k \in DOMAIN cross |->
           [from_context |-> nodes[cross[k].dst].context,
            from_node |-> nodes[cross[k].dst].instance_name,
            to_context |-> context,
            to_node |-> nodes[cross[k].src].instance_name]]

RECURSIVE references_in_order(_, _, _)
references_in_order(nodes, edges, context_order) ==
    IF context_order = <<>> THEN <<>>
    ELSE subgraph_references(nodes, edges, Head(context_order),
                             nodes_by_context(nodes, Head(context_order)))
            \o references_in_order(nodes, edges, Tail(context_order))

make_subgraph(nodes, edges, context, order) ==
    LET members == nodes_by_context(nodes, context)
    IN [context |-> context,
        node_names |-> [k \in DOMAIN members |-> nodes[members[k]].instance_name],
        edges |-> subgraph_edges(nodes, edges, members),
        execution_order |-> [k \in DOMAIN order |-> nodes[members[order[k]]].instance_name]]

\* variant: any order of the context's nodes
subgraph_orders_any(nodes, edges, context) ==
    Perms(1..Len(nodes_by_context(nodes, context)))

subgraph_orders(nodes, edges, context) ==
    LET members == nodes_by_context(nodes, context)
    IN TopoOrders(Len(members), Range(subgraph_edges(nodes, edges, members)))

ExtractSubgraphs ==
    /\ pc = "meta"
    /\ LET present == {c \in Context : nodes_by_context(graph.nodes, c) # <<>>}
       IN \E context_order \in Perms(present) :
            LET cyclic == SelectSeq(context_order,
                              LAMBDA c : subgraph_orders(graph.nodes, graph.edges, c) = {})
            IN IF cyclic # <<>>
               THEN /\ pc' = "failed"
                    /\ result' = [ok |-> FALSE, meta |-> None,
                                  error |-> "Cycle in " \o name(Head(cyclic)) \o " subgraph"]
                    /\ extracted' = extracted
               ELSE \E orders \in [present -> UNION {subgraph_orders(graph.nodes, graph.edges, c) : c \in present}] :
                    /\ \A c \in present : orders[c] \in subgraph_orders(graph.nodes, graph.edges, c)
                    /\ extracted' =
                         [subgraphs |-> [c \in present |-> make_subgraph(graph.nodes, graph.edges, c, orders[c])],
                          references |-> references_in_order(graph.nodes, graph.edges, context_order)]
                    /\ pc' = "dag"
                    /\ result' = result
    /\ UNCHANGED <<ast, graph, node_indices, duplicate_into, original_edges>>
    /\ UNCHANGED <<coordVars, registryVars, first_build>>

\* ------------------------------------------------------ build_context_dag
\* Context as u8
ordinal(ctx) ==
    CASE ctx = "Visual" -> 0
      [] ctx = "Audio" -> 1
      [] ctx = "Compute" -> 2

\* the second pass over the references; dag edges are <<provider, consumer>>
RECURSIVE context_edges(_, _, _, _)
context_edges(references, edge_map, added_edges, dag) ==
    IF references = <<>> THEN dag
    ELSE LET reference == Head(references)
             edge == <<reference.from_context, reference.to_context>>
             reverse_edge == <<reference.to_context, reference.from_context>>
         IN IF edge \in added_edges
            THEN context_edges(Tail(references), edge_map, added_edges, dag)
            ELSE IF /\ reverse_edge \in edge_map
                    /\ reverse_edge \notin added_edges
                    /\ ordinal(reference.to_context) > ordinal(reference.from_context)
            THEN context_edges(Tail(references), edge_map, added_edges, dag)
            ELSE context_edges(Tail(references), edge_map, added_edges \cup {edge},
                               Append(dag, <<reference.to_context, reference.from_context>>))

build_context_dag(subgraphs, references) ==
    [nodes |-> DOMAIN subgraphs,
     edges |-> context_edges(references,
                   {<<references[k].from_context, references[k].to_context>> : k \in DOMAIN references},
                   {}, <<>>)]

\* variant: any order of the contexts
context_orders_any(dag) == Perms(dag.nodes)

\* toposort(&context_dag): the contexts in an order that follows the dag's edges
context_orders(dag) ==
    {p \in Perms(dag.nodes) : \A k \in DOMAIN dag.edges : Pos(p, dag.edges[k][1]) < Pos(p, dag.edges[k][2])}

BuildContextDag ==
    /\ pc = "dag"
    /\ LET context_dag == build_context_dag(extracted.subgraphs, extracted.references)
       IN IF context_orders(context_dag) = {}
          THEN /\ pc' = "failed"
               /\ result' = [ok |-> FALSE, meta |-> None,
                             error |-> "Circular dependency between contexts"]
          ELSE \E execution_order \in context_orders(context_dag) :
               /\ pc' = "done"
               /\ result' = [ok |-> TRUE,
                             meta |-> [subgraphs |-> extracted.subgraphs,
                                       context_dag |-> context_dag,
                                       execution_order |-> execution_order,
                                       references |-> extracted.references],
                             error |-> None]
    /\ UNCHANGED <<ast, graph, node_indices, duplicate_into, original_edges, extracted>>
    /\ UNCHANGED <<coordVars, registryVars, first_build>>

\* ============================================================ Coordinator
\* Backend indices are 1-based here (Vec index + 1); 0 stands for "no backend".
BackendContexts == {"visual", "audio"}

\* the backends that get registered: a visual one with handle support (GPU)
\* and an audio one without (CPU)
BackendKinds ==
    {[context |-> "visual", supports_handles |-> TRUE],
     [context |-> "audio", supports_handles |-> FALSE]}

context_to_str(context) ==
    CASE context = "Visual" -> "visual"
      [] context = "Audio" -> "audio"
      [] context = "Compute" -> "compute"

\* the first registered backend of the context, 0 for the Err branch
find_backend_for_context(bs, context) ==
    IF \E i \in DOMAIN bs : bs[i] = context_to_str(context)
    THEN CHOOSE i \in DOMAIN bs : /\ bs[i] = context_to_str(context)
                                  /\ \A j \in DOMAIN bs : bs[j] = context_to_str(context) => i <= j
    ELSE 0

\* the backend index assign_nodes computes for one node; unwrap_or(0) is the first backend
backend_of_node(bs, node) ==
    LET builtin_ctx == IF node.node_type = "Builtin" /\ extract_builtin_name(node) # None
                       THEN get_builtin_context(extract_builtin_name(node))
                       ELSE None
        via_builtin == IF builtin_ctx # None THEN find_backend_for_context(bs, builtin_ctx) ELSE 0
        via_context == IF node.context # None THEN find_backend_for_context(bs, node.context) ELSE 0
    IN IF via_builtin # 0 THEN via_builtin
       ELSE IF via_context # 0 THEN via_context
       ELSE 1

RECURSIVE assign_nodes(_, _, _, _, _)
assign_nodes(order, nodes, indices, bs, assigned) ==
    IF order = <<>> THEN [assignments |-> assigned, error |-> None]
    ELSE LET node_name == Head(order)
         IN IF node_name \notin DOMAIN indices
            THEN [assignments |-> assigned, error |-> "Node not found: " \o node_name]
            ELSE assign_nodes(Tail(order), nodes, indices, bs,
                     (node_name :> backend_of_node(bs, nodes[indices[node_name]])) @@ assigned)

\* consecutive nodes of one backend form one batch
RECURSIVE batch_nodes(_, _, _)
batch_nodes(order, assigned, batches) ==
    IF order = <<>> THEN batches
    ELSE LET node_name == Head(order)
             backend_idx == assigned[node_name]
             n == Len(batches)
         IN IF n > 0 /\ batches[n].backend_idx = backend_idx
            THEN batch_nodes(Tail(order), assigned,
                     [batches EXCEPT ![n].node_names = Append(@, node_name)])
            ELSE batch_nodes(Tail(order), assigned,
                     Append(batches, [backend_idx |-> backend_idx, node_names |-> <<node_name>>]))

\* the node order compile walks: the subgraph orders along the meta execution order
RECURSIVE build_order(_, _)
build_order(subgraphs, order) ==
    IF order = <<>> THEN <<>>
    ELSE subgraphs[Head(order)].execution_order \o build_order(subgraphs, Tail(order))

\* add_backend, with a backend whose context() is the string drawn
AddBackend ==
    /\ pc = "idle"
    /\ Len(backends) < MaxBackends
    /\ \E backend \in BackendKinds :
          /\ backend.context \in BackendContexts
          /\ backends' = Append(backends, backend.context)
          /\ handles' = Append(handles, backend.supports_handles)
    /\ ret' = [op |-> "add_backend", ok |-> TRUE, error |-> None]
    /\ UNCHANGED <<buildVars, running, assignments, exec_order, env, compiled, calls, compiles>>
    /\ lookup' = NoLookup
    /\ getter' = NoGetter
    /\ UNCHANGED <<failed, outputs, exposed, first_build>>

\* compile, up to the call of self.graph.build
CompileCall ==
    /\ pc = "idle"
    /\ compiles < MaxCompiles
    /\ compiles' = compiles + 1
    /\ pc' = "collect"
    /\ extracted' = NoExtract
    /\ result' = NoResult
    /\ UNCHANGED <<ast, graph, node_indices, duplicate_into, original_edges>>
    /\ lookup' = NoLookup
    /\ getter' = NoGetter
    /\ UNCHANGED <<backends, running, assignments, exec_order, env, compiled, calls, ret>>
    /\ UNCHANGED <<failed, handles, outputs, exposed, first_build>>

\* compile, from the return of self.graph.build; fail_at = k > 0: the backend
\* of the k-th batch returns an error from compile_nodes
CompileReturn ==
    /\ pc \in {"done", "failed"}
    /\ compiles > 0
    /\ IF pc = "failed"
       THEN /\ ret' = [op |-> "compile", ok |-> FALSE, error |-> result.error]
            /\ pc' = "idle"
            /\ UNCHANGED <<running, assignments, exec_order, compiled>>
       ELSE LET order == build_order(result.meta.subgraphs, result.meta.execution_order)
                a == assign_nodes(order, graph.nodes, node_indices, backends, assignments)
                batches == batch_nodes(order, a.assignments, <<>>)
            IN /\ exec_order' = order
               /\ assignments' = a.assignments
               /\ IF a.error # None
                  THEN /\ ret' = [op |-> "compile", ok |-> FALSE, error |-> a.error]
                       /\ pc' = "idle"
                       /\ UNCHANGED <<running, compiled>>
                  ELSE IF batches # <<>> /\ backends = <<>>
                  THEN /\ ret' = [op |-> "compile", ok |-> FALSE, error |-> "panic: index out of bounds"]
                       /\ pc' = "panicked"
                       /\ UNCHANGED <<running, compiled>>
                  ELSE \E fail_at \in 0..Len(batches) :
                          /\ pc' = "idle"
                          /\ IF fail_at = 0
                             THEN /\ compiled' = batches
                                  /\ running' = TRUE
                                  /\ ret' = [op |-> "compile", ok |-> TRUE, error |-> None]
                             ELSE /\ compiled' = SubSeq(batches, 1, fail_at)
                                  /\ running' = running
                                  /\ ret' = [op |-> "compile", ok |-> FALSE, error |-> "backend error"]
    /\ UNCHANGED <<ast, graph, node_indices, duplicate_into, original_edges, extracted, result>>
    /\ UNCHANGED <<backends, env, calls, compiles>>
    /\ UNCHANGED <<registryVars, first_build>>

\* variant: execute without the running test
ExecuteUnguarded ==
    /\ pc = "idle"
    /\ env.syncs < MaxTicks
    /\ env' = [started |-> TRUE, syncs |-> env.syncs + 1]
    /\ calls' = [i \in 1..Len(backends) |-> i]
    /\ failed' = 0
    /\ ret' = [op |-> "execute", ok |-> TRUE, error |-> None]
    /\ lookup' = NoLookup
    /\ getter' = NoGetter
    /\ UNCHANGED <<buildVars, backends, running, assignments, exec_order, compiled, compiles>>
    /\ UNCHANGED <<handles, outputs, exposed, first_build>>

\* variant: execute goes on to the remaining backends after an error
ExecuteThrough ==
    /\ pc = "idle"
    /\ running
    /\ env.syncs < MaxTicks
    /\ env' = [started |-> TRUE, syncs |-> env.syncs + 1]
    /\ calls' = [i \in 1..Len(backends) |-> i]
    /\ \E fail_at \in 0..Len(backends) :
          /\ failed' = fail_at
          /\ ret' = IF fail_at = 0
                    THEN [op |-> "execute", ok |-> TRUE, error |-> None]
                    ELSE [op |-> "execute", ok |-> FALSE, error |-> "backend error"]
    /\ lookup' = NoLookup
    /\ getter' = NoGetter
    /\ UNCHANGED <<buildVars, backends, running, assignments, exec_order, compiled, compiles>>
    /\ UNCHANGED <<handles, outputs, exposed, first_build>>

\* execute; fail_at = k > 0: the k-th backend returns an error from execute
Execute ==
    /\ pc = "idle"
    /\ IF ~running
       THEN /\ ret' = [op |-> "execute", ok |-> FALSE,
                       error |-> "Cannot execute: program not compiled yet"]
            /\ calls' = <<>>
            /\ failed' = 0
            /\ env' = env
       ELSE /\ env.syncs < MaxTicks
            /\ env' = [started |-> TRUE, syncs |-> env.syncs + 1]
            /\ \E fail_at \in 0..Len(backends) :
                  IF fail_at = 0
                  THEN /\ calls' = [i \in 1..Len(backends) |-> i]
                       /\ failed' = 0
                       /\ ret' = [op |-> "execute", ok |-> TRUE, error |-> None]
                  ELSE /\ calls' = [i \in 1..fail_at |-> i]
                       /\ failed' = fail_at
                       /\ ret' = [op |-> "execute", ok |-> FALSE, error |-> "backend error"]
    /\ lookup' = NoLookup
    /\ getter' = NoGetter
    /\ UNCHANGED <<buildVars, backends, running, assignments, exec_order, compiled, compiles>>
    /\ UNCHANGED <<handles, outputs, exposed, first_build>>

\* the programs the Coordinator is constructed with
CrossProgram ==
    [bindings |-> Bindings({<<"a", "b">>}, NoCall),
     backends |-> <<[context |-> "display", positional_args |-> {"a"}],
                    [context |-> "play", positional_args |-> {"b"}]>>]

SharedProgram ==
    [bindings |-> Bindings({<<"a", "b">>, <<"a", "c">>}, NoCall),
     backends |-> <<[context |-> "display", positional_args |-> {"b"}],
                    [context |-> "play", positional_args |-> {"c"}]>>]

VisualChain ==
    [bindings |-> Bindings({<<"a", "b">>, <<"b", "c">>}, NoCall),
     backends |-> <<[context |-> "display", positional_args |-> {"c"}]>>]

SelfReference ==
    [bindings |-> Bindings({<<"a", "a">>}, NoCall),
     backends |-> <<[context |-> "display", positional_args |-> {"a"}]>>]

CoordPrograms == {CrossProgram, VisualChain, SelfReference}

CoordInit ==
    /\ pc = "idle"
    /\ ast \in CoordPrograms
    /\ graph = [nodes |-> <<>>, edges |-> <<>>]
    /\ node_indices = EmptyMap
    /\ duplicate_into = EmptyMap
    /\ original_edges = <<>>
    /\ extracted = NoExtract
    /\ result = NoResult
    /\ CoordinatorNew

CoordNext ==
    \/ AddBackend
    \/ CompileCall
    \/ CollectInstances
    \/ BuildInitialEdges
    \/ Phase0InitialTyping
    \/ Phase1TypePropagation
    \/ Phase2UntypedComponents
    \/ Phase3BuildTypedEdges
    \/ ExtractSubgraphs
    \/ BuildContextDag
    \/ CompileReturn
    \/ Execute

CoordSpec == CoordInit /\ [][CoordNext]_vars

\* ======================================================= output registry
\* instance and output names handed to expose and lookup; a name is any string
InstanceNames == {"a", "a.b"}

OutputNames == {"c", "b.c"}

ExposablePairs == {<<"a", "c">>, <<"a", "b.c">>, <<"a.b", "c">>}

\* OutputHandle values held by the registry
Handles == {"h1", "h2"}

\* format!("{}.{}", instance, output)
registry_key(instance, output) == instance \o "." \o output

\* OutputRegistry::register
register(registry, instance, output, handle, backend_index) ==
    (registry_key(instance, output) :>
        [instance |-> instance, output |-> output,
         backend_index |-> backend_index, handle |-> handle]) @@ registry

\* OutputRegistry::get returns Ok
found(registry, instance, output) == registry_key(instance, output) \in DOMAIN registry

\* OutputRegistry::get: the location when it returns Ok
get(registry, instance, output) == registry[registry_key(instance, output)]

\* expose; backend_idx is any usize, registered or not
Expose ==
    /\ pc = "idle"
    /\ \E pair \in ExposablePairs, handle \in Handles, backend_idx \in 1..(MaxBackends + 1) :
          /\ pair[1] \in InstanceNames
          /\ pair[2] \in OutputNames
          /\ outputs' = register(outputs, pair[1], pair[2], handle, backend_idx)
          /\ exposed' = exposed \cup {pair}
    /\ ret' = [op |-> "expose", ok |-> TRUE, error |-> None]
    /\ lookup' = NoLookup
    /\ getter' = NoGetter
    /\ UNCHANGED <<buildVars, backends, running, assignments, exec_order, env, compiled, calls, compiles>>
    /\ UNCHANGED <<failed, handles, first_build>>

\* what Backend::get_handle may return: Err, or a handle of one of the HandleTypes
HandleResults == {"Err", "Buffer", "Texture", "Sampler"}

\* variant: a Sampler handle falls through to the slow path
data_reference_lenient(handle_result) ==
    CASE handle_result = "Buffer" -> [ok |-> TRUE, value |-> "MetalBuffer", error |-> None]
      [] handle_result = "Texture" -> [ok |-> TRUE, value |-> "MetalTexture", error |-> None]
      [] OTHER -> [ok |-> TRUE, value |-> "ValueGetter", error |-> None]

\* the fast path of lookup and its fall through to the slow path
data_reference(handle_result) ==
    CASE handle_result = "Buffer" -> [ok |-> TRUE, value |-> "MetalBuffer", error |-> None]
      [] handle_result = "Texture" -> [ok |-> TRUE, value |-> "MetalTexture", error |-> None]
      [] handle_result = "Sampler" ->
            [ok |-> FALSE, value |-> None,
             error |-> "Sampler handles cannot be used as data references"]
      [] OTHER -> [ok |-> TRUE, value |-> "ValueGetter", error |-> None]

\* lookup; handle_result is what the owning backend's get_handle returns
Lookup ==
    /\ pc = "idle"
    /\ \E pair \in ExposablePairs :
          LET instance == pair[1]
              output == pair[2]
              location == get(outputs, instance, output)
          IN IF ~found(outputs, instance, output)
             THEN /\ ret' = [op |-> "lookup", ok |-> FALSE,
                             error |-> "Output not found: " \o instance \o "." \o output]
                  /\ lookup' = [NoLookup EXCEPT !.instance = instance, !.output = output]
                  /\ pc' = pc
             ELSE IF location.backend_index > Len(backends)
             THEN /\ ret' = [op |-> "lookup", ok |-> FALSE, error |-> "panic: index out of bounds"]
                  /\ lookup' = [NoLookup EXCEPT !.instance = instance, !.output = output,
                                                !.backend = location.backend_index]
                  /\ pc' = "panicked"
             ELSE \E handle_result \in HandleResults :
                     LET r == data_reference(handle_result)
                     IN /\ ret' = [op |-> "lookup", ok |-> r.ok, error |-> r.error]
                        /\ lookup' = [instance |-> instance, output |-> output,
                                      backend |-> location.backend_index,
                                      get_handle |-> handle_result, value |-> r.value]
                        /\ pc' = pc
    /\ getter' = NoGetter
    /\ UNCHANGED <<ast, graph, node_indices, duplicate_into, original_edges, extracted, result>>
    /\ UNCHANGED <<backends, running, assignments, exec_order, env, compiled, calls, compiles>>
    /\ UNCHANGED <<failed, handles, outputs, exposed, first_build>>

\* coordinate maps handed to a ValueGetter
Coords == {"p", "q"}

\* what Backend::get_value_at may return
ValueResults == {[ok |-> FALSE, value |-> 0], [ok |-> TRUE, value |-> 0], [ok |-> TRUE, value |-> 5]}

\* variant: the closure asks for the registered location's names and passes the error value on
value_getter_raw(looked_up, registry, coords, answer) ==
    LET location == get(registry, looked_up.instance, looked_up.output)
    IN [invoked |-> TRUE,
        instance |-> location.instance,
        output |-> location.output,
        backend |-> looked_up.backend,
        coords |-> coords,
        answer |-> answer,
        value |-> IF answer.ok THEN answer.value ELSE -1]

\* the closure built by the slow path: get_value_at(instance_name, output_name, coords).unwrap_or(0.0)
value_getter(looked_up, registry, coords, answer) ==
    [invoked |-> TRUE,
     instance |-> looked_up.instance,
     output |-> looked_up.output,
     backend |-> looked_up.backend,
     coords |-> coords,
     answer |-> answer,
     value |-> IF answer.ok THEN answer.value ELSE 0]

\* the ValueGetter returned by the last lookup is invoked
InvokeGetter ==
    /\ pc = "idle"
    /\ ret.op = "lookup"
    /\ ret.ok
    /\ lookup.value = "ValueGetter"
    /\ \E coords \in Coords, answer \in ValueResults :
          getter' = value_getter(lookup, outputs, coords, answer)
    /\ UNCHANGED <<buildVars, coordVars>>
    /\ UNCHANGED <<failed, handles, outputs, lookup, exposed, first_build>>

\* Program { statements: vec![] }
EmptyProgram == [bindings |-> <<>>, backends |-> <<>>]

RegistryInit ==
    /\ pc = "idle"
    /\ ast = EmptyProgram
    /\ graph = [nodes |-> <<>>, edges |-> <<>>]
    /\ node_indices = EmptyMap
    /\ duplicate_into = EmptyMap
    /\ original_edges = <<>>
    /\ extracted = NoExtract
    /\ result = NoResult
    /\ CoordinatorNew

\* a coordinator that is only given backends and outputs and asked for them
RegistryNext ==
    \/ AddBackend
    \/ Expose
    \/ Lookup
    \/ InvokeGetter

RegistrySpec == RegistryInit /\ [][RegistryNext]_vars

\* every call of the coordinator, in any order
SessionNext ==
    \/ AddBackend
    \/ CompileCall
    \/ CollectInstances
    \/ BuildInitialEdges
    \/ Phase0InitialTyping
    \/ Phase1TypePropagation
    \/ Phase2UntypedComponents
    \/ Phase3BuildTypedEdges
    \/ ExtractSubgraphs
    \/ BuildContextDag
    \/ CompileReturn
    \/ Execute
    \/ Expose
    \/ Lookup
    \/ InvokeGetter

SessionSpec == RegistryInit /\ [][SessionNext]_vars

\* ====================================================== two fresh builds
\* the labelled edges of the rebuilt graph, by instance name
edge_labels(g) ==
    {<<g.nodes[g.edges[k].src].instance_name, g.nodes[g.edges[k].dst].instance_name, g.edges[k].weight>> :
        k \in DOMAIN g.edges}

\* the first build has returned; the same program is built again on a new RenderGraph
BuildAgain ==
    /\ pc \in {"done", "failed"}
    /\ ~first_build.built
    /\ first_build' = [built |-> TRUE, result |-> result, edges |-> edge_labels(graph)]
    /\ pc' = "collect"
    /\ graph' = [nodes |-> <<>>, edges |-> <<>>]
    /\ node_indices' = EmptyMap
    /\ duplicate_into' = EmptyMap
    /\ original_edges' = <<>>
    /\ extracted' = NoExtract
    /\ result' = NoResult
    /\ UNCHANGED <<ast, coordVars, registryVars>>

\* the audio -> visual -> audio chain: a is an audio builtin, b is displayed, c is played
AudioVisualAudio ==
    [bindings |-> Bindings({<<"a", "b">>, <<"b", "c">>}, "load_audio"),
     backends |-> <<[context |-> "display", positional_args |-> {"b"}],
                    [context |-> "play", positional_args |-> {"c"}]>>]

TwoBuildPrograms == {CrossProgram, SharedProgram, VisualChain, SelfReference, AudioVisualAudio}

TwoBuildInit ==
    /\ pc = "collect"
    /\ ast \in TwoBuildPrograms
    /\ graph = [nodes |-> <<>>, edges |-> <<>>]
    /\ node_indices = EmptyMap
    /\ duplicate_into = EmptyMap
    /\ original_edges = <<>>
    /\ extracted = NoExtract
    /\ result = NoResult
    /\ CoordinatorNew

TwoBuildNext ==
    \/ CollectInstances
    \/ BuildInitialEdges
    \/ Phase0InitialTyping
    \/ Phase1TypePropagation
    \/ Phase2UntypedComponents
    \/ Phase3BuildTypedEdges
    \/ ExtractSubgraphs
    \/ BuildContextDag
    \/ BuildAgain

TwoBuildSpec == TwoBuildInit /\ [][TwoBuildNext]_vars

Next ==
    \/ CollectInstances
    \/ BuildInitialEdges
    \/ Phase0InitialTyping
    \/ Phase1TypePropagation
    \/ Phase2UntypedComponents
    \/ Phase3BuildTypedEdges
    \/ ExtractSubgraphs
    \/ BuildContextDag

Spec == Init /\ [][Next]_vars

\* ================================================= Phase 1, round by round
\* one iteration of the first `while changed` loop: one pass of the for loop;
\* the loop is left when the pass set no context
Phase1BottomUpRound ==
    /\ pc = "phase1"
    /\ LET after == bottom_up_pass(graph.nodes, graph.edges, 1)
           changed == after # graph.nodes
       IN /\ graph' = [graph EXCEPT !.nodes = after]
          /\ pc' = IF changed THEN "phase1" ELSE "phase1b"
    /\ UNCHANGED <<ast, node_indices, duplicate_into, original_edges, extracted, result>>
    /\ UNCHANGED <<coordVars, registryVars, first_build>>

\* one iteration of the second `while changed` loop
Phase1TopDownRound ==
    /\ pc = "phase1b"
    /\ LET after == top_down_pass(graph.nodes, graph.edges, 1)
           changed == after # graph.nodes
       IN /\ graph' = [graph EXCEPT !.nodes = after]
          /\ pc' = IF changed THEN "phase1b" ELSE "phase2"
    /\ UNCHANGED <<ast, node_indices, duplicate_into, original_edges, extracted, result>>
    /\ UNCHANGED <<coordVars, registryVars, first_build>>

TypingNext ==
    \/ CollectInstances
    \/ BuildInitialEdges
    \/ Phase0InitialTyping
    \/ Phase1BottomUpRound
    \/ Phase1TopDownRound
    \/ Phase2UntypedComponents
    \/ Phase3BuildTypedEdges
    \/ ExtractSubgraphs
    \/ BuildContextDag

TypingSpec == Init /\ [][TypingNext]_vars

\* programs whose contexts travel along a chain a -> b -> c or around the
\* cycle a <-> b
PropagationDeps == {E \in DepGraphs : E \subseteq {<<"a", "b">>, <<"b", "c">>, <<"b", "a">>}}

PropagationSinks ==
    {<<>>,
     <<[context |-> "display", positional_args |-> {"c"}]>>,
     <<[context |-> "play", positional_args |-> {"b"}]>>,
     <<[context |-> "display", positional_args |-> {"c"}], [context |-> "play", positional_args |-> {"a"}]>>}

PropagationPrograms ==
    {[bindings |-> Bindings(E, callA), backends |-> S] :
        E \in PropagationDeps, callA \in {NoCall, "load_audio"}, S \in PropagationSinks}

PropagationInit ==
    /\ pc = "collect"
    /\ ast \in PropagationPrograms
    /\ graph = [nodes |-> <<>>, edges |-> <<>>]
    /\ node_indices = EmptyMap
    /\ duplicate_into = EmptyMap
    /\ original_edges = <<>>
    /\ extracted = NoExtract
    /\ result = NoResult
    /\ CoordinatorNew

PropagationSpec == PropagationInit /\ [][TypingNext]_vars

\* build is straight-line code without suspension points: a step that can be
\* taken is taken
FairPropagationSpec == PropagationSpec /\ WF_vars(TypingNext)

\* ======================================================== sink statements
\* backend statements with a keyword get_context does not know ("show") and
\* with an argument that names no instance ("z")
SinkKeywords == {"display", "play", "show"}

SinkArgs == {"a", "b", "z"}

AnySinkStmts == [context : SinkKeywords, positional_args : {{n} : n \in SinkArgs}]

SinkPrograms ==
    {[bindings |-> Bindings(E, callA), backends |-> S] :
        E \in {{}, {<<"a", "b">>}}, callA \in {NoCall, "load_audio"},
        S \in BoundedSeq(AnySinkStmts, MaxSinks)}

SinkInit ==
    /\ pc = "collect"
    /\ ast \in SinkPrograms
    /\ graph = [nodes |-> <<>>, edges |-> <<>>]
    /\ node_indices = EmptyMap
    /\ duplicate_into = EmptyMap
    /\ original_edges = <<>>
    /\ extracted = NoExtract
    /\ result = NoResult
    /\ CoordinatorNew

SinkSpec == SinkInit /\ [][Next]_vars

\* ================================================== repeated instance names
\* programs in which two instance bindings carry the same name
DupOrders == {<<"a", "a", "b">>, <<"a", "b", "a">>, <<"a", "b", "b">>}

DupBindings(order, E, callA) ==
    [i \in 1..Len(order) |->
        [name |-> order[i],
         deps |-> {d \in Names : <<d, order[i]>> \in E},
         call |-> IF i = 1 THEN callA ELSE NoCall]]

DupPrograms ==
    {[bindings |-> DupBindings(order, E, callA), backends |-> S] :
        order \in DupOrders, E \in {{}, {<<"a", "b">>}}, callA \in {NoCall, "load_audio"},
        S \in BoundedSeq(SinkStmts, MaxSinks)}

DupInit ==
    /\ pc = "collect"
    /\ ast \in DupPrograms
    /\ graph = [nodes |-> <<>>, edges |-> <<>>]
    /\ node_indices = EmptyMap
    /\ duplicate_into = EmptyMap
    /\ original_edges = <<>>
    /\ extracted = NoExtract
    /\ result = NoResult
    /\ CoordinatorNew

DupSpec == DupInit /\ [][Next]_vars

\* ============================================ components of several nodes
\* four instances, so that an untyped component of two nodes can feed two
\* contexts: a is read by b, b by c and d, and c and d are shown to sinks
WebOrder == <<"a", "b", "c", "d">>

WebCandidates == {<<"a", "b">>, <<"b", "c">>, <<"b", "d">>, <<"a", "c">>}

WebBindings(E) ==
    [i \in 1..Len(WebOrder) |->
        [name |-> WebOrder[i],
         deps |-> {x \in Range(WebOrder) : <<x, WebOrder[i]>> \in E},
         call |-> NoCall]]

WebSinks ==
    {<<[context |-> "display", positional_args |-> {"c"}], [context |-> "play", positional_args |-> {"d"}]>>,
     <<[context |-> "display", positional_args |-> {"c"}], [context |-> "display", positional_args |-> {"d"}]>>,
     <<[context |-> "play", positional_args |-> {"d"}]>>,
     <<>>}

WebPrograms ==
    {[bindings |-> WebBindings(E), backends |-> S] :
        E \in {F \in SUBSET WebCandidates : Cardinality(F) <= MaxEdges + 1},
        S \in WebSinks}

WebInit ==
    /\ pc = "collect"
    /\ ast \in WebPrograms
    /\ graph = [nodes |-> <<>>, edges |-> <<>>]
    /\ node_indices = EmptyMap
    /\ duplicate_into = EmptyMap
    /\ original_edges = <<>>
    /\ extracted = NoExtract
    /\ result = NoResult
    /\ CoordinatorNew

WebSpec == WebInit /\ [][Next]_vars

\* ================================================================ claims
\* ---- the program as written ------------------------------------------
Defined == {ast.bindings[i].name : i \in DOMAIN ast.bindings}

\* d \in DepsOf(n): the expression of instance n reads a strand of instance d
DepsOf(n) == UNION {ast.bindings[i].deps : i \in {k \in DOMAIN ast.bindings : ast.bindings[k].name = n}} \cap Defined

RECURSIVE UpClosure(_)
UpClosure(S) ==
    LET T == S \cup UNION {DepsOf(n) : n \in S}
    IN IF T = S THEN S ELSE UpClosure(T)

HasCycle == \E n \in Defined : n \in UpClosure(DepsOf(n))

SinkInstances == UNION {ast.backends[k].positional_args : k \in DOMAIN ast.backends} \cap Defined

\* the instances from which a sink instance is reachable along dep -> dependent edges
UpstreamOfSinks == UpClosure(SinkInstances)

\* ---- the graph and the returned MetaGraph ------------------------------
Meta == result.meta

OriginalOf(node) == IF node.original_name # None THEN node.original_name ELSE node.instance_name

ConcreteOf(n) == {i \in DOMAIN graph.nodes : OriginalOf(graph.nodes[i]) = n}

Occurrences(s, x) == Cardinality({k \in DOMAIN s : s[k] = x})

SubgraphsHolding(nm) == {c \in DOMAIN Meta.subgraphs : nm \in Range(Meta.subgraphs[c].node_names)}

\* C1 (Partition): after a successful build every concrete node (original or
\* clone) of an instance that lies upstream of a sink has a context and is
\* listed, once, in the node set of exactly one subgraph: that of its context.
C1_Partition ==
    pc = "done" =>
        \A n \in UpstreamOfSinks :
            /\ ConcreteOf(n) # {}
            /\ \A i \in ConcreteOf(n) :
                  LET node == graph.nodes[i]
                  IN /\ node.context # None
                     /\ SubgraphsHolding(node.instance_name) = {node.context}
                     /\ Occurrences(Meta.subgraphs[node.context].node_names, node.instance_name) = 1

\* a successful build with a duplicated upstream instance and two subgraphs
C1_Witness ==
    /\ pc = "done"
    /\ \E n \in UpstreamOfSinks : Cardinality(ConcreteOf(n)) = 2
    /\ Cardinality(DOMAIN Meta.subgraphs) = 2

\* C2 (Cycle rejection): whenever the program's instance dependency graph has
\* a directed cycle (a self reference included), build ends in an error that
\* names a circular dependency and returns no MetaGraph.
C2_CycleRejected ==
    (HasCycle /\ pc \in {"done", "failed"}) =>
        /\ pc = "failed"
        /\ ~result.ok
        /\ result.error \in {"Circular dependency between contexts"} \cup
                            {"Cycle in " \o name(c) \o " subgraph" : c \in Context}

\* ---- context-level ordering --------------------------------------------
RefPairs(references) == {<<references[k].to_context, references[k].from_context>> : k \in DOMAIN references}

\* provider P and consumer Q reference each other's context
Mutual(references, P, Q) == <<P, Q>> \in RefPairs(references) /\ <<Q, P>> \in RefPairs(references)

Before(order, x, y) ==
    /\ x \in Range(order)
    /\ y \in Range(order)
    /\ Pos(order, x) < Pos(order, y)

\* C3 (Context-cycle breaking): when the collected references go both ways
\* between two contexts, build_context_dag keeps only the edge whose provider
\* has the lower ordinal, build succeeds and that context comes first in the
\* meta execution order, in whatever order the references were collected.
\* (Stated for programs without an instance cycle.)
C3_CycleBroken ==
    (/\ ~HasCycle
     /\ pc \in {"done", "failed"}
     /\ \E P, Q \in Context : Mutual(extracted.references, P, Q)) =>
        /\ pc = "done"
        /\ \A P, Q \in Context :
              (Mutual(extracted.references, P, Q) /\ ordinal(P) < ordinal(Q)) =>
                 /\ <<P, Q>> \in Range(Meta.context_dag.edges)
                 /\ <<Q, P>> \notin Range(Meta.context_dag.edges)
                 /\ Before(Meta.execution_order, P, Q)

\* C4 (Provider before consumer): in a returned MetaGraph the meta execution
\* order lists every context that has a subgraph exactly once, follows every
\* edge of the context DAG, and puts the provider of every Reference whose
\* context pair is not referenced the other way round before its consumer.
C4_ProviderFirst ==
    pc = "done" =>
        /\ Range(Meta.execution_order) = DOMAIN Meta.subgraphs
        /\ Len(Meta.execution_order) = Cardinality(DOMAIN Meta.subgraphs)
        /\ \A e \in Range(Meta.context_dag.edges) : Before(Meta.execution_order, e[1], e[2])
        /\ \A k \in DOMAIN Meta.references :
              LET r == Meta.references[k]
              IN <<r.from_context, r.to_context>> \notin RefPairs(Meta.references)
                    => Before(Meta.execution_order, r.to_context, r.from_context)

\* a successful build with a one-way cross-context Reference
C4_Witness ==
    /\ pc = "done"
    /\ \E k \in DOMAIN Meta.references :
          <<Meta.references[k].from_context, Meta.references[k].to_context>> \notin RefPairs(Meta.references)

\* ---- edges -------------------------------------------------------------
ContextAt(i) == graph.nodes[i].context

NameAt(i) == graph.nodes[i].instance_name

AfterPhase3 == pc \in {"meta", "dag", "done"}

\* C8 (Edge-type consistency): after Phase 3 an edge is Normal exactly when
\* its endpoints have equal contexts and Reference exactly when they differ;
\* hence every edge of a Subgraph joins two nodes of the subgraph's context.
C8_EdgeTypes ==
    /\ AfterPhase3 =>
          \A e \in Range(graph.edges) :
              /\ e.weight = "Normal" <=> ContextAt(e.src) = ContextAt(e.dst)
              /\ e.weight = "Reference" <=> ContextAt(e.src) # ContextAt(e.dst)
    /\ pc \in {"dag", "done"} =>
          \A c \in DOMAIN extracted.subgraphs :
              LET sub == extracted.subgraphs[c]
              IN \A e \in Range(sub.edges) :
                    \A q \in {e[1], e[2]} :
                        \E i \in DOMAIN graph.nodes :
                            NameAt(i) = sub.node_names[q] /\ ContextAt(i) = c

\* Phase 3 has produced both a Normal and a Reference edge
C8_Witness ==
    /\ AfterPhase3
    /\ \E e \in Range(graph.edges) : e.weight = "Normal"
    /\ \E e \in Range(graph.edges) : e.weight = "Reference"

\* the chain a <- b <- c shown to one display sink
ChainProgram ==
    [bindings |-> Bindings({<<"a", "b">>, <<"b", "c">>}, NoCall),
     backends |-> <<[context |-> "display", positional_args |-> {"c"}]>>]

\* C9 (Subgraph topological soundness): in a returned MetaGraph each subgraph's
\* execution_order is a permutation of its node names that puts the producer of
\* every Normal edge inside the subgraph before its consumer; the chain
\* a <- b <- c in one context gives exactly [a, b, c].
C9_SubgraphOrder ==
    pc = "done" =>
        /\ \A c \in DOMAIN Meta.subgraphs :
              LET sub == Meta.subgraphs[c]
              IN /\ Len(sub.execution_order) = Len(sub.node_names)
                 /\ \A nm \in Range(sub.node_names) :
                       Occurrences(sub.execution_order, nm) = Occurrences(sub.node_names, nm)
                 /\ Range(sub.execution_order) = Range(sub.node_names)
                 /\ \A e \in Range(graph.edges) :
                       (e.weight = "Normal" /\ ContextAt(e.src) = c /\ ContextAt(e.dst) = c)
                          => Before(sub.execution_order, NameAt(e.src), NameAt(e.dst))
        /\ ast = ChainProgram => Meta.subgraphs["Visual"].execution_order = <<"a", "b", "c">>

\* a successful build whose subgraph holds a chain of two Normal edges
C9_Witness ==
    /\ pc = "done"
    /\ ast = ChainProgram
    /\ \E e, f \in Range(graph.edges) :
          /\ e.weight = "Normal" /\ f.weight = "Normal"
          /\ e.dst = f.src /\ e.src # e.dst /\ f.src # f.dst

\* C10 (Reference soundness): every Reference of a returned MetaGraph joins two
\* different contexts, names a node of the from_context subgraph that depends,
\* in the program, on the named node of the to_context subgraph; and every
\* dependency edge whose endpoints have different contexts has its Reference.
C10_References ==
    pc = "done" =>
        /\ \A k \in DOMAIN Meta.references :
              LET r == Meta.references[k]
              IN /\ r.from_context # r.to_context
                 /\ r.from_context \in DOMAIN Meta.subgraphs
                 /\ r.to_context \in DOMAIN Meta.subgraphs
                 /\ r.from_node \in Range(Meta.subgraphs[r.from_context].node_names)
                 /\ r.to_node \in Range(Meta.subgraphs[r.to_context].node_names)
                 /\ r.from_node \in Defined
                 /\ r.to_node \in DepsOf(r.from_node)
        /\ \A e \in Range(graph.edges) :
              ContextAt(e.src) # ContextAt(e.dst) =>
                 \E k \in DOMAIN Meta.references :
                    Meta.references[k] = [from_context |-> ContextAt(e.dst), from_node |-> NameAt(e.dst),
                                          to_context |-> ContextAt(e.src), to_node |-> NameAt(e.src)]
        /\ \A n \in Defined : \A d \in DepsOf(n) :
              \A i \in ConcreteOf(n) : \A j \in ConcreteOf(d) :
                 (/\ ~graph.nodes[i].is_duplicate /\ ~graph.nodes[j].is_duplicate
                  /\ ContextAt(i) # None /\ ContextAt(j) # None /\ ContextAt(i) # ContextAt(j)) =>
                    \E k \in DOMAIN Meta.references :
                       Meta.references[k] = [from_context |-> ContextAt(i), from_node |-> n,
                                             to_context |-> ContextAt(j), to_node |-> d]

\* a successful build that returned a Reference
C10_Witness == pc = "done" /\ Meta.references # <<>>

\* ---- ticks ---------------------------------------------------------------
LastTickCompleted == pc = "idle" /\ running /\ result.ok /\ ret.op = "execute" /\ ret.ok

\* C5 (Tick ordering): in a completed tick of a running Coordinator the
\* backends were invoked along the compiled meta execution_order, whatever the
\* order of their registration: for every cross-context dependency kept in the
\* context DAG the backend of the provider context ran before the backend of
\* the consumer context.
C5_TickOrder ==
    LastTickCompleted =>
        \A e \in Range(Meta.context_dag.edges) :
            /\ Before(Meta.execution_order, e[1], e[2])
            /\ \A k, l \in DOMAIN calls :
                  (/\ backends[calls[k]] = context_to_str(e[1])
                   /\ backends[calls[l]] = context_to_str(e[2])) => k < l

\* a step of Coordinator::execute
ExecuteStep == pc = "idle" /\ pc' = "idle" /\ ret'.op = "execute"

\* C12 (Execute before compile): as long as no compile has succeeded (running
\* is set by nothing but a compile that returns Ok), every execute call returns
\* the "not compiled" Runtime error, invokes no backend, leaves running false
\* and leaves the environment's clock and counters as they were.
C12_ExecuteBeforeCompile ==
    /\ [][(~running /\ running') => (pc' = "idle" /\ ret'.op = "compile" /\ ret'.ok)]_vars
    /\ [][(ExecuteStep /\ ~running) =>
            /\ ~ret'.ok
            /\ ret'.error = "Cannot execute: program not compiled yet"
            /\ calls' = <<>>
            /\ failed' = 0
            /\ ~running'
            /\ env' = env]_vars

\* execute was refused on a Coordinator that has backends and a failed compile behind it
C12_Witness ==
    /\ pc = "idle"
    /\ ~running
    /\ compiles > 0
    /\ backends # <<>>
    /\ ret.op = "execute"
    /\ ~ret.ok

\* C13 (Compile and the running flag): when compile has returned, running is
\* true if it returned Ok and false if it returned an error, also when an
\* earlier compile on the same Coordinator had succeeded.
C13_RunningFlag ==
    (pc = "idle" /\ ret.op = "compile") => (running <=> ret.ok)

\* a context of the compiled MetaGraph has no registered backend
ContextWithoutBackend(c) == \A i \in DOMAIN backends : backends[i] # context_to_str(c)

\* C14 (Missing backend): when the built program has a node in a context for
\* which no backend is registered, compile returns a Runtime error that reports
\* the missing backend, hands no node to a backend of another context and
\* does not set running.
C14_MissingBackend ==
    (/\ pc \in {"idle", "panicked"}
     /\ ret.op = "compile"
     /\ result.ok
     /\ \E c \in DOMAIN Meta.subgraphs : ContextWithoutBackend(c)) =>
        /\ pc = "idle"
        /\ ~ret.ok
        /\ ret.error \in {"No backend found for context: " \o name(c) :
                              c \in {d \in DOMAIN Meta.subgraphs : ContextWithoutBackend(d)}}
        /\ ~running
        /\ \A k \in DOMAIN compiled :
              \A c \in DOMAIN Meta.subgraphs :
                  \A nm \in Range(compiled[k].node_names) \cap Range(Meta.subgraphs[c].node_names) :
                      backends[compiled[k].backend_idx] = context_to_str(c)

\* C15 (Tick abort): when a backend returns an error during execute, execute
\* returns that error at once: the failing backend is the last one invoked in
\* the tick, and the Coordinator stays running, so a later execute is accepted.
C15_TickAbort ==
    [][(ExecuteStep /\ running /\ failed' # 0) =>
          /\ ~ret'.ok
          /\ ret'.error = "backend error"
          /\ calls' = [i \in 1..failed' |-> i]
          /\ running'
          /\ pc' = "idle"]_vars

\* a tick in which the first of two backends failed
C15_Witness ==
    /\ pc = "idle"
    /\ running
    /\ ret.op = "execute"
    /\ failed = 1
    /\ Len(backends) >= 2

\* ---- two builds of one program ------------------------------------------
NodeSets(meta) == [c \in DOMAIN meta.subgraphs |-> Range(meta.subgraphs[c].node_names)]

\* C11 (Build determinism): two builds of the same program, each on a fresh
\* RenderGraph, both succeed or both fail, and when they succeed they give the
\* same subgraph node sets, the same edge labels, the same set of references
\* and the same meta execution order, whatever the hash iteration orders were.
C11_Deterministic ==
    (first_build.built /\ pc \in {"done", "failed"}) =>
        /\ result.ok = first_build.result.ok
        /\ result.ok =>
              /\ NodeSets(Meta) = NodeSets(first_build.result.meta)
              /\ edge_labels(graph) = first_build.edges
              /\ Range(Meta.references) = Range(first_build.result.meta.references)
              /\ Meta.execution_order = first_build.result.meta.execution_order

\* ---- Phase 2: the untyped components as Phase 1 left them ---------------
UntypedNodes == {i \in DOMAIN graph.nodes : ContextAt(i) = None}

Adjacent(i, j) ==
    \E e \in Range(graph.edges) : (e.src = i /\ e.dst = j) \/ (e.src = j /\ e.dst = i)

RECURSIVE Grow(_)
Grow(K) ==
    LET L == K \cup {j \in UntypedNodes : \E i \in K : Adjacent(i, j)}
    IN IF L = K THEN K ELSE Grow(L)

\* the connected components of the untyped part of the graph
Components == {Grow({i}) : i \in UntypedNodes}

TypedDependencies(K) == {e.src : e \in {f \in Range(graph.edges) : f.dst \in K /\ ContextAt(f.src) # None}}

TargetContexts(K) == {ContextAt(e.dst) : e \in {f \in Range(graph.edges) : f.src \in K}} \ {None}

Phase2Step == pc = "phase2" /\ pc' = "phase3"

LowerName(C) == CASE C = "Visual" -> "visual" [] C = "Audio" -> "audio" [] C = "Compute" -> "compute"

CloneName(n, C) == n \o "$" \o LowerName(C)

IsCloneName(nm) == \E i \in DOMAIN graph.nodes : NameAt(i) = nm /\ graph.nodes[i].is_duplicate

\* C6 (Duplicate-on-shared): Phase 2 replaces every node n of an untyped
\* component that has no typed dependency and k >= 2 target contexts by exactly
\* k clones, one per target context C, named n$lowercase(C), of context C and
\* original_name n, and drops n from the node index; after a successful build
\* every clone is in the subgraph of its context and no Reference names a clone.
C6_Duplication ==
    /\ [][Phase2Step =>
            \A K \in Components :
                (TypedDependencies(K) = {} /\ Cardinality(TargetContexts(K)) >= 2) =>
                    \A i \in K :
                        LET n == NameAt(i)
                            clones == {j \in DOMAIN graph'.nodes : graph'.nodes[j].original_name = n}
                        IN /\ Cardinality(clones) = Cardinality(TargetContexts(K))
                           /\ \A j \in clones : graph'.nodes[j].is_duplicate
                           /\ \A C \in TargetContexts(K) :
                                 /\ CloneName(n, C) \in DOMAIN node_indices'
                                 /\ node_indices'[CloneName(n, C)] \in clones
                                 /\ graph'.nodes[node_indices'[CloneName(n, C)]].instance_name = CloneName(n, C)
                                 /\ graph'.nodes[node_indices'[CloneName(n, C)]].context = C
                           /\ n \notin DOMAIN node_indices'
                           /\ \A j \in DOMAIN graph'.nodes : graph'.nodes[j].instance_name # n
                           /\ duplicate_into'[n] = TargetContexts(K)]_vars
    /\ [](pc = "done" =>
            /\ \A n \in DOMAIN duplicate_into : \A C \in duplicate_into[n] :
                  /\ C \in DOMAIN Meta.subgraphs
                  /\ CloneName(n, C) \in Range(Meta.subgraphs[C].node_names)
            /\ \A k \in DOMAIN Meta.references :
                  ~IsCloneName(Meta.references[k].from_node) /\ ~IsCloneName(Meta.references[k].to_node))

\* a successful build in which an instance was duplicated
C6_Witness == pc = "done" /\ \E n \in DOMAIN duplicate_into : Cardinality(duplicate_into[n]) >= 2

LookupReturned == pc = "idle" /\ ret.op = "lookup"

\* the last call was a lookup of a registered pair whose owner is a registered backend
LookupReachedOwner ==
    /\ LookupReturned
    /\ found(outputs, lookup.instance, lookup.output)
    /\ lookup.backend \in 1..Len(backends)

\* C16: a lookup of a registered pair whose owning backend's get_handle
\* succeeds returns a buffer reference for a Buffer handle, a texture reference
\* for a Texture handle, and for a Sampler handle a Runtime error, never a
\* ValueGetter.
C16_LookupByHandleKind ==
    (LookupReturned /\ lookup.get_handle \in {"Buffer", "Texture", "Sampler"}) =>
        /\ LookupReachedOwner
        /\ lookup.get_handle = "Buffer" => (ret.ok /\ lookup.value = "MetalBuffer")
        /\ lookup.get_handle = "Texture" => (ret.ok /\ lookup.value = "MetalTexture")
        /\ lookup.get_handle = "Sampler" =>
              /\ ~ret.ok
              /\ ret.error = "Sampler handles cannot be used as data references"
              /\ lookup.value # "ValueGetter"

C16_Witness ==
    /\ LookupReachedOwner
    /\ lookup.get_handle = "Sampler"
    /\ ~ret.ok
    /\ Len(backends) = 2
    /\ lookup.backend = 2

\* C17: lookup calls get_handle on the owning backend only if that backend
\* advertises supports_handles; for a backend that does not, get_handle is not
\* called and the lookup of a registered pair returns a ValueGetter.
C17_HandleGating ==
    LookupReachedOwner =>
        /\ lookup.get_handle # NotCalled => handles[lookup.backend]
        /\ ~handles[lookup.backend] =>
              /\ lookup.get_handle = NotCalled
              /\ ret.ok
              /\ lookup.value = "ValueGetter"

\* C18: a lookup of a registered pair whose owning backend's get_handle fails
\* succeeds with a ValueGetter; every invocation of it asks the owning backend
\* for get_value_at of exactly the instance, strand and coordinates given, and
\* returns that value, or 0 when get_value_at returns an error.
C18_ValueGetterFallback ==
    /\ (LookupReturned /\ lookup.get_handle = "Err") =>
          /\ LookupReachedOwner
          /\ ret.ok
          /\ lookup.value = "ValueGetter"
    /\ getter.invoked =>
          /\ LookupReachedOwner
          /\ lookup.get_handle = "Err"
          /\ getter.instance = lookup.instance
          /\ getter.output = lookup.output
          /\ getter.backend = get(outputs, lookup.instance, lookup.output).backend_index
          /\ getter.coords \in Coords
          /\ getter.value = (IF getter.answer.ok THEN getter.answer.value ELSE 0)

C18_Witness ==
    /\ getter.invoked
    /\ ~getter.answer.ok
    /\ getter.value = 0
    /\ lookup.get_handle = "Err"
    /\ <<lookup.instance, lookup.output>> \in exposed
    /\ get(outputs, lookup.instance, lookup.output).instance = lookup.instance
    /\ getter.backend = 2

\* a step that is a call of lookup
LookupStep == pc = "idle" /\ ret'.op = "lookup" /\ lookup'.instance # None /\ getter' = NoGetter

\* C19: after any sequence of add_backend, expose, compile and execute calls,
\* the lookup of a pair that was never exposed returns the Runtime error
\* "Output not found" and changes no state.
C19_LookupMiss ==
    [][(LookupStep /\ <<lookup'.instance, lookup'.output>> \notin exposed) =>
          /\ ~ret'.ok
          /\ ret'.error = "Output not found: " \o lookup'.instance \o "." \o lookup'.output
          /\ lookup'.get_handle = NotCalled
          /\ pc' = "idle"
          /\ UNCHANGED <<buildVars, backends, running, assignments, exec_order, env, compiled, compiles>>
          /\ UNCHANGED <<handles, outputs, exposed>>]_vars

\* the entries a registry holds for one (instance, output) pair
entries_of(registry, pair) ==
    {registry[k] : k \in {k \in DOMAIN registry :
                            registry[k].instance = pair[1] /\ registry[k].output = pair[2]}}

\* C20: an expose of (i, s, h, b) leaves the registry with exactly one entry
\* for (i, s), carrying h and b, whatever was exposed for (i, s) before; it
\* leaves the registry as it was when that entry was already there; and it
\* leaves the entry of every other (instance, strand) pair unchanged.
C20_ExposeLastWriteWins ==
    [][(pc = "idle" /\ ret'.op = "expose") =>
          \E pair \in ExposablePairs, handle \in Handles, backend_idx \in 1..(MaxBackends + 1) :
             LET location == [instance |-> pair[1], output |-> pair[2],
                              backend_index |-> backend_idx, handle |-> handle]
             IN /\ entries_of(outputs', pair) = {location}
                /\ Cardinality({k \in DOMAIN outputs' :
                                  outputs'[k].instance = pair[1] /\ outputs'[k].output = pair[2]}) = 1
                /\ entries_of(outputs, pair) = {location} => outputs' = outputs
                /\ \A other \in ExposablePairs \ {pair} :
                      entries_of(outputs', other) = entries_of(outputs, other)]_vars

\* ---- Phase 0 ---------------------------------------------------------------
\* the sink keywords of the language
KnownSinks == {"display", "render", "render_3d", "play", "compute", "data", "web", "osc", "midi"}

UnknownSinkStmts == {k \in DOMAIN ast.backends : ast.backends[k].context \notin KnownSinks}

PastPhase0 == pc \in {"phase1", "phase2", "phase3", "meta", "dag", "done", "failed"}

StmtsNaming(n) == {k \in DOMAIN ast.backends : n \in ast.backends[k].positional_args}

LastStmtNaming(n) == CHOOSE k \in StmtsNaming(n) : \A j \in StmtsNaming(n) : j <= k

\* the context inherent to the builtin that binding k calls, None if there is none
InherentContext(k) ==
    CASE ast.bindings[k].call \in {"load_movie", "load_video", "load_image", "camera", "camera_in"} -> "Visual"
      [] ast.bindings[k].call \in {"load_audio", "mic_in", "microphone"} -> "Audio"
      [] OTHER -> None

UniqueNames == \A i, j \in DOMAIN ast.bindings : ast.bindings[i].name = ast.bindings[j].name => i = j

\* C26: when phase0_initial_typing has succeeded, an instance named by a
\* backend statement carries the context of the last backend statement naming
\* it, also when its builtin has an inherent context; an instance no statement
\* names carries its builtin's inherent context or none; a name that is no
\* defined instance changes nothing.
C26_Phase0Seeding ==
    (pc = "phase1" /\ compiles = 0 /\ UniqueNames) =>
        /\ Len(graph.nodes) = Len(ast.bindings)
        /\ \A k \in DOMAIN ast.bindings :
              LET node == graph.nodes[node_indices[ast.bindings[k].name]]
              IN /\ node.instance_name = ast.bindings[k].name
                 /\ node.context =
                       IF StmtsNaming(ast.bindings[k].name) # {}
                       THEN get_context(ast.backends[LastStmtNaming(ast.bindings[k].name)].context)
                       ELSE InherentContext(k)

C26_Witness ==
    /\ pc = "phase1"
    /\ ast.bindings[1].call = "load_audio"
    /\ Len(ast.backends) = 2
    /\ ast.backends[1].context = "play"
    /\ ast.backends[1].positional_args = {"z"}
    /\ ast.backends[2].context = "display"
    /\ ast.backends[2].positional_args = {"a"}
    /\ graph.nodes[node_indices["a"]].context = "Visual"

\* C22: a program with two instance bindings of the same name is rejected with
\* an error; build returns no MetaGraph for it.
C22_NameCollision ==
    (~UniqueNames /\ pc \in {"done", "failed"}) => (pc = "failed" /\ ~result.ok)

\* C23: the lookup of a pair exposed with a backend index that no registered
\* backend has returns a Runtime error to its caller; the Coordinator does not
\* panic.
C23_BackendIndexOutOfRange ==
    (/\ ret.op = "lookup"
     /\ found(outputs, lookup.instance, lookup.output)
     /\ get(outputs, lookup.instance, lookup.output).backend_index > Len(backends)) =>
        /\ pc = "idle"
        /\ ~ret.ok
        /\ lookup.get_handle = NotCalled

\* ---- Phase 1 ---------------------------------------------------------------
\* the nodes that read node i, and the nodes node i reads
DependentsOf(i) == {e.dst : e \in {f \in Range(graph.edges) : f.src = i}}

DependenciesOf(i) == {e.src : e \in {f \in Range(graph.edges) : f.dst = i}}

BottomUpRound == pc = "phase1" /\ pc' \in {"phase1", "phase1b"}

TopDownRound == pc = "phase1b" /\ pc' \in {"phase1b", "phase2"}

\* C24: a node the bottom-up pass gives a context to has at least one
\* dependent, and all of its dependents are typed and carry that one context
\* (contexts are never changed by Phase 1, so dependents that were typed when the
\* node was visited are typed, with the same context, when the round ends).
C24_BottomUpRule ==
    [][BottomUpRound =>
          \A i \in DOMAIN graph.nodes :
             (graph.nodes[i].context = None /\ graph'.nodes[i].context # None) =>
                /\ DependentsOf(i) # {}
                /\ \A d \in DependentsOf(i) : graph'.nodes[d].context = graph'.nodes[i].context]_vars

ContextsOf(S) == {graph.nodes[j].context : j \in S} \ {None}

\* C25: when phase1_type_propagation has returned, no propagation rule applies
\* any more: no untyped node has typed dependents carrying exactly one distinct
\* context, and none has typed dependencies carrying exactly one distinct
\* context.
C25_JointFixedPoint ==
    pc = "phase2" =>
        \A i \in DOMAIN graph.nodes :
           graph.nodes[i].context = None =>
              /\ Cardinality(ContextsOf(DependentsOf(i))) # 1
              /\ Cardinality(ContextsOf(DependenciesOf(i))) # 1

\* ---- compile after compile -------------------------------------------------
Injective(s) == \A i, j \in DOMAIN s : s[i] = s[j] => i = j

\* C27: a compile leaves the RenderGraph as a compile on a new Coordinator
\* would: when build returns, every original edge is recorded once, every node
\* name belongs to one node and the returned references hold no entry twice,
\* also when the same program was compiled on this Coordinator before.
C27_ClearAndRebuild ==
    (pc = "done" /\ compiles >= 1) =>
        /\ Injective(original_edges)
        /\ Injective([i \in DOMAIN graph.nodes |-> graph.nodes[i].instance_name])
        /\ Injective(Meta.references)

\* ---- typed and untyped nodes -----------------------------------------------
Typed(i) == graph.nodes[i].context # None

\* C28: after Phase 2 no dependency joins a typed node and an untyped node:
\* of every original edge either all concrete endpoints are typed or all are
\* untyped, and so is every edge Phase 3 builds; an untyped node is in no
\* subgraph and in no Reference, and every Reference edge ends in a typed
\* node, so extract_subgraphs skips none.
C28_TypedUntypedSeparation ==
    /\ (pc \in {"phase3", "meta", "dag", "done"} /\ compiles = 0) =>
          \A k \in DOMAIN original_edges :
             \A i \in ConcreteOf(original_edges[k][1]), j \in ConcreteOf(original_edges[k][2]) :
                Typed(i) <=> Typed(j)
    /\ (AfterPhase3 /\ compiles = 0) =>
          /\ \A e \in Range(graph.edges) : Typed(e.src) <=> Typed(e.dst)
          /\ \A e \in Range(graph.edges) : e.weight = "Reference" => Typed(e.dst)
    /\ (pc = "done" /\ compiles = 0) =>
          \A i \in DOMAIN graph.nodes :
             ~Typed(i) =>
                /\ SubgraphsHolding(NameAt(i)) = {}
                /\ \A r \in Range(Meta.references) : r.from_node # NameAt(i) /\ r.to_node # NameAt(i)

C28_Witness ==
    /\ pc = "done"
    /\ \E e \in Range(graph.edges) : ~Typed(e.src) /\ ~Typed(e.dst)
    /\ \E e \in Range(graph.edges) : Typed(e.src) /\ e.weight = "Reference"

\* ---- clones ------------------------------------------------------------------
IsClone(i) == graph.nodes[i].is_duplicate

\* the edges Phase 3 built from a clone of instance child to node p
EdgesFromClonesTo(child, p) ==
    {m \in DOMAIN graph.edges :
        /\ graph.edges[m].dst = p
        /\ IsClone(graph.edges[m].src)
        /\ graph.nodes[graph.edges[m].src].original_name = child}

\* C29: every edge Phase 3 builds with a clone at an end joins two nodes of one
\* context and is Normal; no Reference names a clone; and an original edge from
\* a duplicated producer to a typed consumer that was not duplicated is built
\* exactly once, from the clone that has the consumer's context.
C29_ClonesStayInContext ==
    /\ (AfterPhase3 /\ compiles = 0) =>
          /\ \A e \in Range(graph.edges) :
                (IsClone(e.src) \/ IsClone(e.dst)) =>
                   /\ ContextAt(e.src) = ContextAt(e.dst)
                   /\ e.weight = "Normal"
          /\ \A k \in DOMAIN original_edges :
                LET child == original_edges[k][1]
                    parent == original_edges[k][2]
                IN (/\ child \in DOMAIN duplicate_into
                    /\ parent \notin DOMAIN duplicate_into
                    /\ parent \in DOMAIN node_indices
                    /\ Typed(node_indices[parent])) =>
                       /\ Cardinality(EdgesFromClonesTo(child, node_indices[parent])) = 1
                       /\ \A m \in EdgesFromClonesTo(child, node_indices[parent]) :
                             ContextAt(graph.edges[m].src) = ContextAt(node_indices[parent])
    /\ (pc = "done" /\ compiles = 0) =>
          \A r \in Range(Meta.references) : ~IsCloneName(r.from_node) /\ ~IsCloneName(r.to_node)

C29_Witness ==
    /\ pc = "done"
    /\ \E e \in Range(graph.edges) : IsClone(e.src) /\ IsClone(e.dst)
    /\ \E e \in Range(graph.edges) : IsClone(e.src) /\ ~IsClone(e.dst) /\ ContextAt(e.dst) = "Audio"
    /\ \E e \in Range(graph.edges) : IsClone(e.src) /\ ~IsClone(e.dst) /\ ContextAt(e.dst) = "Visual"

\* ------------------------------------------------------------ termination
Untyped(nodes) == {i \in DOMAIN nodes : nodes[i].context = None}

\* the productive rounds the first `while changed` loop still runs from
\* `nodes`, counted up to `fuel`
RECURSIVE BottomUpRoundsLeft(_, _, _)
BottomUpRoundsLeft(nodes, edges, fuel) ==
    IF fuel = 0 THEN 0
    ELSE LET after == bottom_up_pass(nodes, edges, 1)
         IN IF after = nodes THEN 0 ELSE 1 + BottomUpRoundsLeft(after, edges, fuel - 1)

\* the same for the second loop
RECURSIVE TopDownRoundsLeft(_, _, _)
TopDownRoundsLeft(nodes, edges, fuel) ==
    IF fuel = 0 THEN 0
    ELSE LET after == top_down_pass(nodes, edges, 1)
         IN IF after = nodes THEN 0 ELSE 1 + TopDownRoundsLeft(after, edges, fuel - 1)

\* a round of either loop leaves every context that was set as it is, and sets
\* `changed` exactly when it typed a node that had no context
RoundProgress ==
    (BottomUpRound \/ TopDownRound) =>
        /\ Len(graph'.nodes) = Len(graph.nodes)
        /\ graph'.edges = graph.edges
        /\ \A i \in DOMAIN graph.nodes : Typed(i) => graph'.nodes[i].context = graph.nodes[i].context
        /\ (pc' = pc) = (Untyped(graph'.nodes) # Untyped(graph.nodes))
        /\ (pc' = pc) => Cardinality(Untyped(graph'.nodes)) < Cardinality(Untyped(graph.nodes))

\* C30: RenderGraph::build eventually returns, with a MetaGraph or an error;
\* each loop of Phase 1 runs at most as many productive rounds as there are
\* nodes (indeed as there are nodes without a context), because a round that
\* sets `changed` types at least one node that had no context and no context
\* that was set is ever removed or replaced.
C30_Termination ==
    /\ <>(pc \in {"done", "failed"})
    /\ [](pc = "phase1" =>
            /\ BottomUpRoundsLeft(graph.nodes, graph.edges, Len(graph.nodes) + 1)
                  <= Cardinality(Untyped(graph.nodes))
            /\ Cardinality(Untyped(graph.nodes)) <= Len(graph.nodes))
    /\ [](pc = "phase1b" =>
            /\ TopDownRoundsLeft(graph.nodes, graph.edges, Len(graph.nodes) + 1)
                  <= Cardinality(Untyped(graph.nodes))
            /\ Cardinality(Untyped(graph.nodes)) <= Len(graph.nodes))
    /\ [][RoundProgress]_vars

\* build has returned a MetaGraph for a program whose first loop ran two
\* productive rounds: instance p is read only by the later instance q, q only
\* by an instance a backend statement names, and neither p nor q is seeded by
\* Phase 0, so that the round that types q visits p before q has a context
C30_Witness ==
    /\ pc = "done"
    /\ result.ok
    /\ \E p, q, r \in DOMAIN ast.bindings :
          LET readers(k) == {j \in DOMAIN ast.bindings : ast.bindings[k].name \in ast.bindings[j].deps}
              unseeded(k) == StmtsNaming(ast.bindings[k].name) = {} /\ InherentContext(k) = None
          IN /\ p < q
             /\ q # r
             /\ readers(p) = {q}
             /\ readers(q) = {r}
             /\ unseeded(p)
             /\ unseeded(q)
             /\ StmtsNaming(ast.bindings[r].name) # {}
             /\ ast.bindings[p].name \in DOMAIN node_indices
             /\ Typed(node_indices[ast.bindings[p].name])

====
